---- MODULE Spec2Model ----
(***************************************************************************)
(* Model of the per-call media-stream bridge of src/index.js: the          *)
(* "/media-stream" websocket handler (lines 110-264).  One session owns    *)
(* the telephony socket `connection` and the speech-AI socket `openAiWs`,  *)
(* and the closure variables streamSid, latestMediaTimestamp,              *)
(* lastAssistantItem, markQueue and responseStartTimestampTwilio.  Node    *)
(* runs each event callback to completion, so each callback is one action. *)
(***************************************************************************)
EXTENDS Integers, Sequences, FiniteSets, TLC

\* ---------------------------------------------------------------- bounds
MaxTs == 3
MaxMarks == 2

\* marks the telephony provider may still have to acknowledge: a barge-in
\* empties markQueue while the marks sent before it are still unacknowledged
MaxUnacked == MaxMarks + 1

\* ------------------------------------------------------- input alphabets
NULL == "null"
StreamSids == {"SS1", "SS2"}
ItemIds == {"it1", "it2"}
AudioDeltas == {"", "d1"}
MediaPayloads == {"p1", "p2"}
\* the briefing SYSTEM_MESSAGE is constructed with (lines 65-66)
DefaultPrompt == "briefing0"

\* the briefings a trigger-call request may carry
Prompts == {"briefing0", "briefing1"}

\* msg.start.streamSid: a stream identifier, or NULL when the start body has none
StartSids == StreamSids \cup {NULL}

\* request.body.prompt: a briefing, a blank string, or NULL when it is no string
PromptInputs == Prompts \cup {" ", NULL}

\* inbound telephony frames whose handling throws: text that is no JSON, a
\* start event without its start body, a media event without its media body
MalformedKinds == {"unparseable", "start", "media"}
Timestamps == 0..MaxTs

\* a nullable number: <<>> is null, <<n>> is the number n
None == <<>>
Some(n) == <<n>>

VARIABLES
    streamSid,                     \* line 122
    latestMediaTimestamp,          \* line 123
    lastAssistantItem,             \* line 124
    markQueue,                     \* line 125
    responseStartTimestampTwilio,  \* line 126
    connState,                     \* readyState of `connection` (telephony leg)
    openAiState,                   \* readyState of `openAiWs` (speech-AI leg)
    openAiErrored,                 \* openAiWs has emitted "error" (its socket is destroyed)
    sessionTimer,                  \* the setTimeout(initializeSession, 1000) of line 148
    sent,                          \* the send() calls of the last callback, in order
    lastEvent,                     \* the event the last callback was invoked for
    prevMediaTs,                   \* history: timestamp of the previous telephony media event
                                   \*   (kept only while tsMonotone holds, 0 afterwards)
    tsMonotone,                    \* history: media timestamps so far were non-decreasing
    SYSTEM_MESSAGE,                \* line 65, the process-wide instruction string
    instructionsAtStart,           \* history: SYSTEM_MESSAGE when this session's connection was accepted
    marksUnacked,                  \* history: mark frames sent and not yet acknowledged by the provider
    sessionUpdates                 \* history: session.update frames sent so far

vars == <<streamSid, latestMediaTimestamp, lastAssistantItem, markQueue,
          responseStartTimestampTwilio, connState, openAiState, openAiErrored,
          sessionTimer, sent, lastEvent, prevMediaTs, tsMonotone,
          SYSTEM_MESSAGE, instructionsAtStart, marksUnacked, sessionUpdates>>

session == <<streamSid, latestMediaTimestamp, lastAssistantItem, markQueue,
             responseStartTimestampTwilio>>

legs == <<connState, openAiState, openAiErrored, sessionTimer>>

history == <<prevMediaTs, tsMonotone>>

config == <<SYSTEM_MESSAGE, instructionsAtStart>>

counts == <<marksUnacked, sessionUpdates>>

\* ------------------------------------------------------------ JS helpers
\* truthiness of a string-or-null value: null, undefined and "" are falsy
Truthy(s) == s # NULL /\ s # ""

\* ------------------------------------------------------- outbound frames
MediaFrame(sid, payload) ==
    [event |-> "media", streamSid |-> sid, payload |-> payload]

MarkFrame(sid) ==
    [event |-> "mark", streamSid |-> sid, name |-> "responsePart"]

ClearFrame(sid) ==
    [event |-> "clear", streamSid |-> sid]

TruncateFrame(item, elapsed) ==
    [type |-> "conversation.item.truncate", item_id |-> item,
     content_index |-> 0, audio_end_ms |-> elapsed]

AppendFrame(payload) ==
    [type |-> "input_audio_buffer.append", audio |-> payload]

SessionUpdateFrame ==
    [type |-> "session.update", instructions |-> SYSTEM_MESSAGE]

\* connection.send(frame): the call, and the readyState it was made in
ConnectionSend(frame) ==
    [leg |-> "twilio", frame |-> frame, readyState |-> connState]

\* openAiWs.send(frame)
OpenAiSend(frame) ==
    [leg |-> "openai", frame |-> frame, readyState |-> openAiState]

\* ------------------------------------------------------------------ Init
Init ==
    /\ streamSid = NULL
    /\ latestMediaTimestamp = 0
    /\ lastAssistantItem = NULL
    /\ markQueue = <<>>
    /\ responseStartTimestampTwilio = None
    /\ connState = "OPEN"
    /\ openAiState = "CONNECTING"
    /\ openAiErrored = FALSE
    /\ sessionTimer = "idle"
    /\ sent = <<>>
    /\ lastEvent = [leg |-> "none", type |-> "connect"]
    /\ prevMediaTs = 0
    /\ tsMonotone = TRUE
    /\ SYSTEM_MESSAGE = DefaultPrompt
    /\ instructionsAtStart = SYSTEM_MESSAGE
    /\ marksUnacked = 0
    /\ sessionUpdates = 0

\* ------------------------------------------- telephony leg: connection.on
\* case "start" without the reset of responseStartTimestampTwilio
TwilioStart_KeepTimestamp(sid) ==
    /\ connState = "OPEN"
    /\ streamSid' = sid
    /\ latestMediaTimestamp' = 0
    /\ sent' = <<>>
    /\ lastEvent' = [leg |-> "twilio", type |-> "start", streamSid |-> sid]
    /\ UNCHANGED <<responseStartTimestampTwilio, lastAssistantItem, markQueue,
                   legs, history, config, counts>>

\* case "start" that keeps a streamSid already set
TwilioStart_KeepFirst(sid) ==
    /\ connState = "OPEN"
    /\ streamSid' = (IF streamSid = NULL THEN sid ELSE streamSid)
    /\ responseStartTimestampTwilio' = None
    /\ latestMediaTimestamp' = 0
    /\ sent' = <<>>
    /\ lastEvent' = [leg |-> "twilio", type |-> "start", streamSid |-> sid]
    /\ UNCHANGED <<lastAssistantItem, markQueue, legs, history, config, counts>>

\* case "start"
TwilioStart(sid) ==
    /\ connState = "OPEN"
    /\ streamSid' = sid
    /\ responseStartTimestampTwilio' = None
    /\ latestMediaTimestamp' = 0
    /\ sent' = <<>>
    /\ lastEvent' = [leg |-> "twilio", type |-> "start", streamSid |-> sid]
    /\ UNCHANGED <<lastAssistantItem, markQueue, legs, history, config, counts>>

\* ForwardMedia without the readyState test
ForwardMedia_Unchecked(payload) == <<OpenAiSend(AppendFrame(payload))>>

\* ForwardMedia that only holds back once the socket is closed
ForwardMedia_UnlessClosed(payload) ==
    IF openAiState # "CLOSED" THEN <<OpenAiSend(AppendFrame(payload))>> ELSE <<>>

\* the forward of a media payload to the speech-AI leg
ForwardMedia(payload) ==
    IF openAiState = "OPEN" THEN <<OpenAiSend(AppendFrame(payload))>> ELSE <<>>

\* case "media" that never moves the clock backwards
TwilioMedia_NoRegress(ts, payload) ==
    /\ connState = "OPEN"
    /\ latestMediaTimestamp' = (IF ts > latestMediaTimestamp THEN ts
                                                             ELSE latestMediaTimestamp)
    /\ sent' = ForwardMedia(payload)
    /\ lastEvent' = [leg |-> "twilio", type |-> "media", timestamp |-> ts,
                     payload |-> payload]
    /\ tsMonotone' = (tsMonotone /\ ts >= prevMediaTs)
    /\ prevMediaTs' = (IF tsMonotone' THEN ts ELSE 0)
    /\ UNCHANGED <<streamSid, lastAssistantItem, markQueue,
                   responseStartTimestampTwilio, legs, config, counts>>

\* case "media"
TwilioMedia(ts, payload) ==
    /\ connState = "OPEN"
    /\ latestMediaTimestamp' = ts
    /\ sent' = ForwardMedia(payload)
    /\ lastEvent' = [leg |-> "twilio", type |-> "media", timestamp |-> ts,
                     payload |-> payload]
    /\ tsMonotone' = (tsMonotone /\ ts >= prevMediaTs)
    /\ prevMediaTs' = (IF tsMonotone' THEN ts ELSE 0)
    /\ UNCHANGED <<streamSid, lastAssistantItem, markQueue,
                   responseStartTimestampTwilio, legs, config, counts>>

\* ShiftMark that never removes a mark
ShiftMark_Never(q) == q

\* ShiftMark that drops every pending mark
ShiftMark_ClearAll(q) == <<>>

\* markQueue after `if (markQueue.length) markQueue.shift()`
ShiftMark(q) == IF Len(q) > 0 THEN Tail(q) ELSE q

\* marks still unacknowledged once the provider has acknowledged one
AckMark(n) == IF n > 0 THEN n - 1 ELSE 0

\* case "mark"
TwilioMark ==
    /\ connState = "OPEN"
    /\ markQueue' = ShiftMark(markQueue)
    /\ sent' = <<>>
    /\ lastEvent' = [leg |-> "twilio", type |-> "mark"]
    /\ marksUnacked' = AckMark(marksUnacked)
    /\ UNCHANGED <<streamSid, latestMediaTimestamp, lastAssistantItem,
                   responseStartTimestampTwilio, legs, history, config,
                   sessionUpdates>>

\* default: any other event is logged
TwilioOther ==
    /\ connState = "OPEN"
    /\ sent' = <<>>
    /\ lastEvent' = [leg |-> "twilio", type |-> "other"]
    /\ UNCHANGED <<session, legs, history, config, counts>>

\* PartialStart with the resets placed ahead of the read that throws
PartialStart_ResetFirst ==
    [streamSid |-> streamSid,
     responseStartTimestampTwilio |-> None,
     latestMediaTimestamp |-> 0]

\* what case "start" has assigned when reading msg.start.streamSid throws: the
\* read is its first statement (line 225), ahead of the resets of lines 227-228
PartialStart ==
    [streamSid |-> streamSid,
     responseStartTimestampTwilio |-> responseStartTimestampTwilio,
     latestMediaTimestamp |-> latestMediaTimestamp]

\* a frame whose handling throws inside the try block of connection.on("message")
TwilioMalformed(kind) ==
    /\ connState = "OPEN"
    /\ IF kind = "start"
       THEN /\ streamSid' = PartialStart.streamSid
            /\ responseStartTimestampTwilio' = PartialStart.responseStartTimestampTwilio
            /\ latestMediaTimestamp' = PartialStart.latestMediaTimestamp
       ELSE UNCHANGED <<streamSid, responseStartTimestampTwilio, latestMediaTimestamp>>
    /\ sent' = <<>>
    /\ lastEvent' = [leg |-> "twilio", type |-> "malformed", kind |-> kind]
    /\ UNCHANGED <<lastAssistantItem, markQueue, legs, history, config, counts>>

\* readyState of openAiWs after connection.on("close")
CloseOtherLeg(st) == IF st = "OPEN" THEN "CLOSING" ELSE st

\* connection.on("close")
TwilioClose ==
    /\ connState = "OPEN"
    /\ connState' = "CLOSED"
    /\ openAiState' = CloseOtherLeg(openAiState)
    /\ sent' = <<>>
    /\ lastEvent' = [leg |-> "twilio", type |-> "close"]
    /\ UNCHANGED <<session, openAiErrored, sessionTimer, history, config, counts>>

\* ----------------------------------------------- speech-AI leg: openAiWs.on
\* openAiWs.on("open")
OpenAiOpen ==
    /\ openAiState = "CONNECTING"
    /\ openAiState' = "OPEN"
    /\ sessionTimer' = "pending"
    /\ sent' = <<>>
    /\ lastEvent' = [leg |-> "openai", type |-> "open"]
    /\ UNCHANGED <<session, connState, openAiErrored, history, config, counts>>

\* the number of session.update frames among the send() calls `frames`
SessionUpdateSends(frames) ==
    Cardinality({i \in 1..Len(frames) :
                    frames[i].leg = "openai" /\ frames[i].frame.type = "session.update"})

\* initializeSession run by a timer that re-arms itself
InitializeSession_Interval ==
    /\ sessionTimer = "pending"
    /\ sessionTimer' = "pending"
    /\ sent' = <<OpenAiSend(SessionUpdateFrame)>>
    /\ sessionUpdates' = sessionUpdates + SessionUpdateSends(sent')
    /\ lastEvent' = [leg |-> "timer", type |-> "initializeSession"]
    /\ UNCHANGED <<session, connState, openAiState, openAiErrored, history,
                   config, marksUnacked>>

\* initializeSession, run by the timer
InitializeSession ==
    /\ sessionTimer = "pending"
    /\ sessionTimer' = "done"
    /\ sent' = <<OpenAiSend(SessionUpdateFrame)>>
    /\ sessionUpdates' = sessionUpdates + SessionUpdateSends(sent')
    /\ lastEvent' = [leg |-> "timer", type |-> "initializeSession"]
    /\ UNCHANGED <<session, connState, openAiState, openAiErrored, history,
                   config, marksUnacked>>

\* openAiWs delivers "message" events while its receiver is attached
OpenAiReceiving ==
    /\ openAiState \in {"OPEN", "CLOSING"}
    /\ ~openAiErrored

\* `!responseStartTimestampTwilio`
NoStartTimestamp(rst) == rst = None \/ rst = Some(0)

\* responseStartTimestampTwilio after a delta
CaptureStart(rst, latest) == IF NoStartTimestamp(rst) THEN Some(latest) ELSE rst

\* lastAssistantItem after a delta: `if (response.item_id) lastAssistantItem = ...`
RecordItem(last, item) == IF Truthy(item) THEN item ELSE last

\* the mark branch is taken: `if (streamSid)`
MarksStream(sid) == Truthy(sid)

\* DeltaFrames with the mark sent ahead of the audio it marks
DeltaFrames_MarkFirst(sid, delta) ==
    (IF MarksStream(sid) THEN <<ConnectionSend(MarkFrame(sid))>> ELSE <<>>)
        \o <<ConnectionSend(MediaFrame(sid, delta))>>

\* the frames a delta sends on the telephony leg
DeltaFrames(sid, delta) ==
    <<ConnectionSend(MediaFrame(sid, delta))>>
        \o (IF MarksStream(sid) THEN <<ConnectionSend(MarkFrame(sid))>> ELSE <<>>)

\* markQueue after a delta
PushMark(q, sid) == IF MarksStream(sid) THEN Append(q, "responsePart") ELSE q

\* the number of mark frames among the send() calls `frames`
MarkSends(frames) ==
    Cardinality({i \in 1..Len(frames) :
                    frames[i].leg = "twilio" /\ frames[i].frame.event = "mark"})

\* message of type "response.audio.delta"; delta/item = NULL when the field is absent
OpenAiDelta(delta, item) ==
    /\ OpenAiReceiving
    /\ (Truthy(delta) /\ MarksStream(streamSid)) =>
           (Len(markQueue) < MaxMarks /\ marksUnacked < MaxUnacked)
    /\ IF Truthy(delta)
       THEN /\ sent' = DeltaFrames(streamSid, delta)
            /\ responseStartTimestampTwilio' =
                   CaptureStart(responseStartTimestampTwilio, latestMediaTimestamp)
            /\ lastAssistantItem' = RecordItem(lastAssistantItem, item)
            /\ markQueue' = PushMark(markQueue, streamSid)
       ELSE /\ sent' = <<>>
            /\ UNCHANGED <<responseStartTimestampTwilio, lastAssistantItem, markQueue>>
    /\ marksUnacked' = marksUnacked + MarkSends(sent')
    /\ lastEvent' = [leg |-> "openai", type |-> "response.audio.delta",
                     delta |-> delta, item_id |-> item]
    /\ UNCHANGED <<streamSid, latestMediaTimestamp, legs, history, config,
                   sessionUpdates>>

\* BargeInGuard without the markQueue.length test
BargeInGuard_IgnoreQueue(q, rst) == rst # None

\* `markQueue.length && responseStartTimestampTwilio != null`
BargeInGuard(q, rst) == Len(q) > 0 /\ rst # None

\* Elapsed with the operands swapped
Elapsed_Swapped(latest, rst) == rst[1] - latest

\* elapsed = latestMediaTimestamp - responseStartTimestampTwilio
Elapsed(latest, rst) == latest - rst[1]

\* the frames a processed barge-in sends, in order
BargeInFrames(item, latest, rst, sid) ==
    (IF Truthy(item) THEN <<OpenAiSend(TruncateFrame(item, Elapsed(latest, rst)))>>
                     ELSE <<>>)
        \o <<ConnectionSend(ClearFrame(sid))>>

\* BargeInReset without `lastAssistantItem = null`
BargeInReset_KeepItem ==
    [markQueue |-> <<>>, lastAssistantItem |-> lastAssistantItem,
     responseStartTimestampTwilio |-> None]

\* the session fields a processed barge-in resets
BargeInReset ==
    [markQueue |-> <<>>, lastAssistantItem |-> NULL,
     responseStartTimestampTwilio |-> None]

\* message of type "input_audio_buffer.speech_started"
OpenAiSpeechStarted ==
    /\ OpenAiReceiving
    /\ IF BargeInGuard(markQueue, responseStartTimestampTwilio)
       THEN /\ sent' = BargeInFrames(lastAssistantItem, latestMediaTimestamp,
                                     responseStartTimestampTwilio, streamSid)
            /\ markQueue' = BargeInReset.markQueue
            /\ lastAssistantItem' = BargeInReset.lastAssistantItem
            /\ responseStartTimestampTwilio' = BargeInReset.responseStartTimestampTwilio
       ELSE /\ sent' = <<>>
            /\ UNCHANGED <<markQueue, lastAssistantItem, responseStartTimestampTwilio>>
    /\ lastEvent' = [leg |-> "openai", type |-> "input_audio_buffer.speech_started"]
    /\ UNCHANGED <<streamSid, latestMediaTimestamp, legs, history, config, counts>>

\* a message of any other type: logged at most
OpenAiOther ==
    /\ OpenAiReceiving
    /\ sent' = <<>>
    /\ lastEvent' = [leg |-> "openai", type |-> "other"]
    /\ UNCHANGED <<session, legs, history, config, counts>>

\* a message that JSON.parse rejects (line 153): caught and logged
OpenAiMalformed ==
    /\ OpenAiReceiving
    /\ sent' = <<>>
    /\ lastEvent' = [leg |-> "openai", type |-> "malformed", kind |-> "unparseable"]
    /\ UNCHANGED <<session, legs, history, config, counts>>

\* openAiWs.on("error"): logs; the socket itself moves to CLOSING
OpenAiError ==
    /\ openAiState \in {"CONNECTING", "OPEN"}
    /\ openAiState' = "CLOSING"
    /\ openAiErrored' = TRUE
    /\ sent' = <<>>
    /\ lastEvent' = [leg |-> "openai", type |-> "error"]
    /\ UNCHANGED <<session, connState, sessionTimer, history, config, counts>>

\* openAiWs.on("close"): logs
OpenAiClose ==
    /\ openAiState \in {"OPEN", "CLOSING"}
    /\ openAiState' = "CLOSED"
    /\ sent' = <<>>
    /\ lastEvent' = [leg |-> "openai", type |-> "close"]
    /\ UNCHANGED <<session, connState, openAiErrored, sessionTimer, history, config, counts>>

\* ------------------------------------------------ POST /trigger-call
\* `typeof prompt !== "string" || !prompt.trim()` is false
ValidPrompt(prompt) == prompt # NULL /\ prompt # " "

\* SYSTEM_MESSAGE after the request
StorePrompt(current, prompt) == IF ValidPrompt(prompt) THEN prompt ELSE current

\* POST /trigger-call with twilioClient set (AUTO_CALL is "true" by default);
\* without twilioClient the handler returns at line 270 and changes nothing
TriggerCall(prompt) ==
    /\ SYSTEM_MESSAGE' = StorePrompt(SYSTEM_MESSAGE, prompt)
    /\ sent' = <<>>
    /\ lastEvent' = [leg |-> "http", type |-> "trigger-call"]
    /\ UNCHANGED <<session, legs, history, instructionsAtStart, counts>>

\* ------------------------------------------------------------------ Next
Next ==
    \/ \E sid \in StartSids : TwilioStart(sid)
    \/ \E ts \in Timestamps, p \in MediaPayloads : TwilioMedia(ts, p)
    \/ TwilioMark
    \/ TwilioOther
    \/ \E kind \in MalformedKinds : TwilioMalformed(kind)
    \/ TwilioClose
    \/ OpenAiOpen
    \/ InitializeSession
    \/ \E d \in AudioDeltas \cup {NULL}, i \in ItemIds \cup {NULL} : OpenAiDelta(d, i)
    \/ OpenAiSpeechStarted
    \/ OpenAiOther
    \/ OpenAiMalformed
    \/ OpenAiError
    \/ OpenAiClose
    \/ \E prompt \in PromptInputs : TriggerCall(prompt)

Spec == Init /\ [][Next]_vars

TypeOK ==
    /\ streamSid \in StreamSids \cup {NULL}
    /\ latestMediaTimestamp \in Timestamps
    /\ lastAssistantItem \in ItemIds \cup {NULL}
    /\ Len(markQueue) <= MaxMarks
    /\ responseStartTimestampTwilio \in {None} \cup {Some(t) : t \in Timestamps}
    /\ connState \in {"OPEN", "CLOSED"}
    /\ openAiState \in {"CONNECTING", "OPEN", "CLOSING", "CLOSED"}
    /\ sessionTimer \in {"idle", "pending", "done"}
    /\ SYSTEM_MESSAGE \in Prompts
    /\ instructionsAtStart \in Prompts
    /\ marksUnacked \in 0..MaxUnacked
    /\ sessionUpdates \in 0..1


\* ---------------------------------------------------------------- claims
\* the step just taken ran the callback for inbound event `type` of `leg`
Handled(leg, type) == lastEvent'.leg = leg /\ lastEvent'.type = type

\* the last callback was the one for inbound event `type` of `leg`
After(leg, type) == lastEvent.leg = leg /\ lastEvent.type = type

\* send call `s` is a telephony frame of kind `ev`
TwilioFrame(s, ev) == s.leg = "twilio" /\ s.frame.event = ev

\* send call `s` is a speech-AI frame of kind `ty`
OpenAiFrame(s, ty) == s.leg = "openai" /\ s.frame.type = ty

\* C1 (as stated): every response.audio.delta event carrying an audio payload,
\* in every state (also before the telephony start event), sends exactly one
\* media frame and then exactly one mark frame on the telephony leg and
\* appends exactly one entry to pendingMarks.
C1_EveryDeltaMediaThenMark ==
    [][(/\ Handled("openai", "response.audio.delta")
        /\ lastEvent'.delta \notin {NULL, ""}) =>
          /\ Len(sent') = 2
          /\ TwilioFrame(sent'[1], "media")
          /\ TwilioFrame(sent'[2], "mark")
          /\ markQueue' = Append(markQueue, "responsePart")]_vars

\* C1 (amended): a delta event carrying a non-empty payload, once streamSid is
\* set, sends exactly one media frame (that payload) and then exactly one mark
\* frame, both tagged with streamSid, and appends one entry to pendingMarks;
\* before start it sends the media frame alone, with a null streamSid, and
\* leaves pendingMarks unchanged; a delta event with no payload sends nothing.
C1_DeltaMediaThenMarkOnceStarted ==
    [][Handled("openai", "response.audio.delta") =>
          IF lastEvent'.delta \in {NULL, ""}
          THEN sent' = <<>> /\ markQueue' = markQueue
          ELSE /\ TwilioFrame(sent'[1], "media")
               /\ sent'[1].frame.payload = lastEvent'.delta
               /\ sent'[1].frame.streamSid = streamSid
               /\ IF streamSid # NULL
                  THEN /\ Len(sent') = 2
                       /\ TwilioFrame(sent'[2], "mark")
                       /\ sent'[2].frame.streamSid = streamSid
                       /\ markQueue' = Append(markQueue, "responsePart")
                  ELSE /\ Len(sent') = 1
                       /\ markQueue' = markQueue]_vars

\* C1 witness: a delta has just been relayed as media then mark
C1_Witness ==
    /\ After("openai", "response.audio.delta")
    /\ Len(sent) = 2
    /\ TwilioFrame(sent[1], "media")
    /\ TwilioFrame(sent[2], "mark")
    /\ Len(markQueue) = 2

\* C2: a speech-started event received while pendingMarks is empty or
\* responseStartTimestamp is null sends nothing on either leg and changes no
\* session field.
C2_BargeInNoOp ==
    [][(/\ Handled("openai", "input_audio_buffer.speech_started")
        /\ (markQueue = <<>> \/ responseStartTimestampTwilio = None)) =>
          /\ sent' = <<>>
          /\ UNCHANGED session]_vars

\* C2 witness: speech-started was ignored although marks were pending (no start
\* timestamp) and an item was recorded
C2_Witness ==
    /\ After("openai", "input_audio_buffer.speech_started")
    /\ sent = <<>>
    /\ markQueue # <<>>
    /\ lastAssistantItem # NULL
    /\ responseStartTimestampTwilio = None

\* C3: right after a speech-started event that passes the barge-in guard,
\* pendingMarks is empty, lastAssistantItemId and responseStartTimestamp are
\* null, and streamId and latestMediaTimestamp are unchanged.
C3_BargeInResets ==
    [][(/\ Handled("openai", "input_audio_buffer.speech_started")
        /\ markQueue # <<>>
        /\ responseStartTimestampTwilio # None) =>
          /\ markQueue' = <<>>
          /\ lastAssistantItem' = NULL
          /\ responseStartTimestampTwilio' = None
          /\ streamSid' = streamSid
          /\ latestMediaTimestamp' = latestMediaTimestamp]_vars

\* C3 witness: a barge-in has just been processed (it sent its clear frame)
C3_Witness ==
    /\ After("openai", "input_audio_buffer.speech_started")
    /\ Len(sent) = 2
    /\ markQueue = <<>>
    /\ latestMediaTimestamp > 0

\* C4: a processed barge-in sends, in order, one truncate frame on the
\* speech-AI leg (only if lastAssistantItemId is set) with that item id and
\* audio_end_ms = latestMediaTimestamp - responseStartTimestamp as they stood
\* when the event arrived, then one clear frame on the telephony leg.
C4_BargeInFrames ==
    [][(/\ Handled("openai", "input_audio_buffer.speech_started")
        /\ markQueue # <<>>
        /\ responseStartTimestampTwilio # None) =>
          IF lastAssistantItem # NULL
          THEN /\ Len(sent') = 2
               /\ OpenAiFrame(sent'[1], "conversation.item.truncate")
               /\ sent'[1].frame.item_id = lastAssistantItem
               /\ sent'[1].frame.audio_end_ms =
                      latestMediaTimestamp - responseStartTimestampTwilio[1]
               /\ TwilioFrame(sent'[2], "clear")
          ELSE /\ Len(sent') = 1
               /\ TwilioFrame(sent'[1], "clear")]_vars

\* C4 witness: first delta at timestamp 1, media at 3, then speech-started:
\* the truncate frame carries audio_end_ms = 2 (scenario C in model units)
C4_Witness ==
    /\ After("openai", "input_audio_buffer.speech_started")
    /\ Len(sent) = 2
    /\ OpenAiFrame(sent[1], "conversation.item.truncate")
    /\ sent[1].frame.audio_end_ms = 2
    /\ latestMediaTimestamp = 3
    /\ TwilioFrame(sent[2], "clear")

\* C5: in every reachable state responseStartTimestamp is non-null iff
\* lastAssistantItemId is non-null.
C5_StartTimestampIffItem ==
    (responseStartTimestampTwilio # None) <=> (lastAssistantItem # NULL)

\* C6 (as stated): once streamId is set, no later event on either leg, a second
\* start event included, changes it.
C6_StreamSidImmutable ==
    [][streamSid # NULL => streamSid' = streamSid]_vars

\* C6 (amended): streamId is changed only by telephony start events; every
\* start event sets it to the streamSid it carries, so a second start with a
\* different streamSid replaces it; no other event on either leg changes it.
C6_StreamSidSetOnlyByStart ==
    [][IF Handled("twilio", "start")
       THEN streamSid' = lastEvent'.streamSid
       ELSE streamSid' = streamSid]_vars

\* C6 witness: a second start event (marks of the first stream still pending)
\* has set streamSid
C6_Witness ==
    /\ After("twilio", "start")
    /\ markQueue # <<>>
    /\ streamSid = "SS2"

\* C7: every outbound telephony frame (media, mark, clear) carries the
\* session's streamId, and none is sent with an unset streamSid.
C7_FramesCarryStreamSid ==
    \A i \in 1..Len(sent) :
        sent[i].leg = "twilio" =>
            /\ sent[i].frame.streamSid # NULL
            /\ sent[i].frame.streamSid = streamSid

\* C8 (as stated): while media timestamps arrive non-decreasing,
\* latestMediaTimestamp never decreases from one state to the next, start
\* events included, and after each media event it equals that timestamp.
C8_ClockNeverDecreases ==
    [][/\ tsMonotone' => latestMediaTimestamp' >= latestMediaTimestamp
       /\ Handled("twilio", "media") =>
              latestMediaTimestamp' = lastEvent'.timestamp]_vars

\* C8 (amended): after each media event latestMediaTimestamp equals that
\* event's timestamp; while media timestamps arrive non-decreasing it never
\* decreases in any step other than a start event, which resets it to 0.
C8_ClockNeverDecreasesButAtStart ==
    [][/\ (tsMonotone' /\ ~Handled("twilio", "start")) =>
              latestMediaTimestamp' >= latestMediaTimestamp
       /\ Handled("twilio", "start") => latestMediaTimestamp' = 0
       /\ Handled("twilio", "media") =>
              latestMediaTimestamp' = lastEvent'.timestamp]_vars

\* C8 witness: a media event has advanced the clock of a started stream, all
\* timestamps so far non-decreasing
C8_Witness ==
    /\ After("twilio", "media")
    /\ tsMonotone
    /\ streamSid # NULL
    /\ latestMediaTimestamp >= 2
    /\ lastEvent.timestamp = latestMediaTimestamp

\* C9: a telephony mark acknowledgment removes exactly the head entry of a
\* non-empty pendingMarks and does nothing to an empty one; no other session
\* field changes and nothing is sent.
C9_MarkPopsOne ==
    [][Handled("twilio", "mark") =>
          /\ markQueue' = SubSeq(markQueue, 2, Len(markQueue))
          /\ (markQueue # <<>> => Len(markQueue') = Len(markQueue) - 1)
          /\ (markQueue = <<>> => markQueue' = <<>>)
          /\ UNCHANGED <<streamSid, latestMediaTimestamp, lastAssistantItem,
                         responseStartTimestampTwilio>>
          /\ sent' = <<>>]_vars

\* C9 witness: one of two pending marks has just been acknowledged
C9_Witness ==
    /\ After("twilio", "mark")
    /\ Len(markQueue) = 1
    /\ responseStartTimestampTwilio # None

\* C10: whenever either leg closes or errors, the other leg is closed in
\* consequence (its close is at least under way when the callback returns).
C10_ClosePropagates ==
    [][/\ Handled("twilio", "close") => openAiState' \in {"CLOSING", "CLOSED"}
       /\ (Handled("openai", "close") \/ Handled("openai", "error")) =>
              connState' = "CLOSED"]_vars

\* C11 (as stated): no send is ever attempted on a leg that is closed or not
\* yet open: at every send the target leg is open.
C11_SendsOnlyOnOpenLeg ==
    \A i \in 1..Len(sent) : sent[i].readyState = "OPEN"

\* C11 (amended): the forward of telephony media (input_audio_buffer.append) is
\* made only while the speech-AI leg is open and is otherwise dropped; the
\* other frames are handed to send() without a readiness test, also on a leg
\* that is closing or closed, but never on a leg that is still connecting.
C11_NoSendWhileConnecting ==
    \A i \in 1..Len(sent) :
        /\ sent[i].readyState # "CONNECTING"
        /\ OpenAiFrame(sent[i], "input_audio_buffer.append") =>
               sent[i].readyState = "OPEN"

\* C11 witness: a barge-in after the telephony leg closed hands its truncate
\* frame to a closing speech-AI socket and its clear frame to the closed
\* telephony socket
C11_Witness ==
    /\ After("openai", "input_audio_buffer.speech_started")
    /\ Len(sent) = 2
    /\ sent[1].readyState = "CLOSING"
    /\ sent[2].readyState = "CLOSED"

\* C12: a malformed inbound frame on either leg (text that is no JSON, a start
\* or media event without its body) is dropped: nothing is sent, neither leg
\* is closed and no session field changes.
C12_MalformedDropped ==
    [][(Handled("twilio", "malformed") \/ Handled("openai", "malformed")) =>
          /\ sent' = <<>>
          /\ UNCHANGED session
          /\ UNCHANGED <<connState, openAiState>>]_vars

\* C12 witness: a start event without its body has been dropped in the middle
\* of a turn, the stream identity and timing intact
C12_Witness ==
    /\ After("twilio", "malformed")
    /\ lastEvent.kind = "start"
    /\ streamSid = "SS1"
    /\ responseStartTimestampTwilio # None
    /\ latestMediaTimestamp > 0
    /\ markQueue # <<>>

\* C13 (as stated): at every state the length of pendingMarks equals the
\* number of marks sent on the telephony leg and not yet acknowledged, also
\* after a barge-in.
C13_QueueIsUnacked ==
    Len(markQueue) = marksUnacked

\* C13 (amended): pendingMarks never holds more entries than there are marks
\* sent and not yet acknowledged, and holds exactly that many until a barge-in
\* is processed; a barge-in empties it while the marks sent before the clear
\* are still unacknowledged, so it undercounts from then on until they are.
C13_QueueAtMostUnacked ==
    [][/\ Len(markQueue) <= marksUnacked
       /\ Len(markQueue') <= marksUnacked'
       /\ (/\ Len(markQueue) = marksUnacked
           /\ ~(/\ Handled("openai", "input_audio_buffer.speech_started")
                /\ markQueue # <<>>
                /\ responseStartTimestampTwilio # None)) =>
              Len(markQueue') = marksUnacked']_vars

\* C13 witness: after a barge-in and a new delta, a late acknowledgment has
\* emptied pendingMarks although a mark is still unacknowledged
C13_Witness ==
    /\ After("twilio", "mark")
    /\ markQueue = <<>>
    /\ marksUnacked = 1
    /\ responseStartTimestampTwilio # None
    /\ lastAssistantItem # NULL

\* C14: the instruction string of a session's session.update frame is the
\* value SYSTEM_MESSAGE had when that session started; a trigger-call request
\* made after the session started never changes what the session sends.
C14_InstructionsFromSessionStart ==
    \A i \in 1..Len(sent) :
        OpenAiFrame(sent[i], "session.update") =>
            sent[i].frame.instructions = instructionsAtStart

\* C15: within one AI speech turn the first delta sets responseStartTimestamp
\* to latestMediaTimestamp and every later delta of the turn leaves it
\* unchanged, whatever latestMediaTimestamp was at the first delta, 0 included.
C15_StartCapturedOncePerTurn ==
    [][(/\ Handled("openai", "response.audio.delta")
        /\ lastEvent'.delta \notin {NULL, ""}) =>
          IF responseStartTimestampTwilio = None
          THEN responseStartTimestampTwilio' = Some(latestMediaTimestamp)
          ELSE responseStartTimestampTwilio' = responseStartTimestampTwilio]_vars

\* C16: whenever a barge-in is processed after non-decreasing media
\* timestamps, elapsed = latestMediaTimestamp - responseStartTimestamp is
\* non-negative, and so is the audio_end_ms of the truncate frame it sends.
C16_ElapsedNonNegative ==
    [][(/\ Handled("openai", "input_audio_buffer.speech_started")
        /\ markQueue # <<>>
        /\ responseStartTimestampTwilio # None
        /\ tsMonotone) =>
          /\ latestMediaTimestamp - responseStartTimestampTwilio[1] >= 0
          /\ \A i \in 1..Len(sent') :
                 OpenAiFrame(sent'[i], "conversation.item.truncate") =>
                     sent'[i].frame.audio_end_ms >= 0]_vars

\* C16 witness: a barge-in processed on a stream that was started twice, with
\* non-decreasing media timestamps, has sent a truncate frame with a positive
\* audio_end_ms
C16_Witness ==
    /\ After("openai", "input_audio_buffer.speech_started")
    /\ tsMonotone
    /\ streamSid = "SS2"
    /\ Len(sent) = 2
    /\ OpenAiFrame(sent[1], "conversation.item.truncate")
    /\ sent[1].frame.audio_end_ms = 1
    /\ prevMediaTs = MaxTs

\* C17: once pendingMarks has drained to empty through mark acknowledgments,
\* no AI speech is in flight and responseStartTimestamp is null.
C17_StartNullOnceDrained ==
    [][(/\ Handled("twilio", "mark")
        /\ Len(markQueue) = 1
        /\ marksUnacked = 1) =>
          responseStartTimestampTwilio' = None]_vars

\* C18: the session.update frame is sent exactly once per session: by the
\* settle-delay timer that the open of the speech-AI leg arms, never before
\* that leg has opened, and never a second time.
C18_SessionUpdateOnce ==
    /\ sessionUpdates <= 1
    /\ openAiState = "CONNECTING" => (sessionUpdates = 0 /\ sessionTimer = "idle")
    /\ openAiState = "OPEN" => sessionTimer # "idle"
    /\ sessionUpdates = 1 <=> sessionTimer = "done"
    /\ \A i \in 1..Len(sent) :
           OpenAiFrame(sent[i], "session.update") =>
               /\ After("timer", "initializeSession")
               /\ Len(sent) = 1
               /\ sent[i].readyState # "CONNECTING"

\* C18 witness: the one session.update has gone out on the open speech-AI leg
\* and later events have been handled since
C18_Witness ==
    /\ sessionUpdates = 1
    /\ sessionTimer = "done"
    /\ openAiState = "OPEN"
    /\ After("openai", "response.audio.delta")
    /\ markQueue # <<>>

\* C19: every well-formed telephony media event sets latestMediaTimestamp to
\* its timestamp whatever the state of the speech-AI leg, and sends exactly
\* one input_audio_buffer.append frame with its payload if that leg is open
\* and nothing otherwise; no other event sends an append frame, so a payload
\* dropped while the leg was not open is never sent later.
C19_MediaForwardedOrDropped ==
    [][/\ Handled("twilio", "media") =>
              /\ latestMediaTimestamp' = lastEvent'.timestamp
              /\ IF openAiState = "OPEN"
                 THEN /\ Len(sent') = 1
                      /\ OpenAiFrame(sent'[1], "input_audio_buffer.append")
                      /\ sent'[1].frame.audio = lastEvent'.payload
                 ELSE sent' = <<>>
       /\ ~Handled("twilio", "media") =>
              \A i \in 1..Len(sent') :
                  ~OpenAiFrame(sent'[i], "input_audio_buffer.append")]_vars

\* C19 witness: a media event that arrived while the speech-AI leg was closing
\* moved the clock and was dropped
C19_Witness ==
    /\ After("twilio", "media")
    /\ openAiState = "CLOSING"
    /\ sent = <<>>
    /\ lastEvent.payload = "p2"
    /\ latestMediaTimestamp = 2
    /\ lastEvent.timestamp = 2

\* C20: in every reachable state a non-empty pendingMarks implies that
\* streamId is set, so every clear frame of a barge-in carries a set streamSid.
C20_PendingMarksImplyStreamSid ==
    /\ markQueue # <<>> => streamSid # NULL
    /\ \A i \in 1..Len(sent) :
           TwilioFrame(sent[i], "clear") => sent[i].frame.streamSid # NULL

====
